---- MODULE Spec2Model ----
(***************************************************************************)
(* Model of the SteelSeries Sonar client (class Sonar): the asynchronous   *)
(* factory Sonar.create with its two-stage address discovery and the       *)
(* optional mode probe, and the public control operations of an instance.  *)
(* Every asynchronous method is split at its single await: the synchronous *)
(* part (validation, URL construction, sending the request) is one action, *)
(* the continuation that runs when the transport settles is another.       *)
(***************************************************************************)
EXTENDS Integers, Sequences, FiniteSets, TLC

VARIABLES
    phase,             \* position of Sonar.create: idle, discovery, probe, ready, failed
    options,           \* the SonarOptions given to Sonar.create
    appDataFile,       \* the file at appDataPath as the file system presents it
    baseUrl,           \* Sonar.baseUrl
    webServerAddress,  \* Sonar.webServerAddress
    volumePath,        \* Sonar.volumePath
    streamerMode,      \* Sonar._streamerMode
    createRequests,    \* the HTTP requests Sonar.create has issued, in order
    subAppsOutcome,    \* how the transport settled the discovery GET
    createResult,      \* how the promise of Sonar.create settled
    pending,           \* calls of public methods awaiting their HTTP request
    last,              \* the most recently settled call of a public method
    modeAnswered,      \* body of the latest 200 answer to setStreamerMode's PUT
    serverMode,        \* the mode the Sonar service is in
    served,            \* the answers of the service to PUTs to /mode, not yet delivered
    history            \* the probe and the setStreamerMode calls: started, settled

\* The service the instance talks to, and the history of its mode calls.
service == <<serverMode, served, history>>

vars == <<phase, options, appDataFile, baseUrl, webServerAddress, volumePath,
          streamerMode, createRequests, subAppsOutcome, createResult, pending, last,
          modeAnswered, serverMode, served, history>>

-----------------------------------------------------------------------------
(* Program constants *)

CHANNEL_NAMES == {"master", "game", "chatRender", "media", "aux", "chatCapture"}

STREAMER_SLIDER_NAMES == {"streaming", "monitoring"}

VOLUME_PATH == "/volumeSettings/classic"

STREAMER_VOLUME_PATH == "/volumeSettings/streamer"

-----------------------------------------------------------------------------
(* JavaScript numbers.  A finite number is held in fixed point, v            *)
(* ten-thousandths; NaN and the infinities are kinds of their own.           *)

Scale == 10 * 10 * 10 * 10

Num(v) == [kind |-> "num", v |-> v]

NaN == [kind |-> "NaN", v |-> 0]

PosInfinity == [kind |-> "Infinity", v |-> 0]

NegInfinity == [kind |-> "-Infinity", v |-> 0]

\* The relational operator a < b of the language on numbers: false whenever
\* an operand is NaN.
JsLess(a, b) ==
    IF a.kind = "NaN" \/ b.kind = "NaN" THEN FALSE
    ELSE IF a.kind = "Infinity" \/ b.kind = "-Infinity" THEN FALSE
    ELSE IF a.kind = "-Infinity" \/ b.kind = "Infinity" THEN TRUE
    ELSE a.v < b.v

\* a > b is b < a.
JsGreater(a, b) == JsLess(b, a)

Digit(d) == <<"0", "1", "2", "3", "4", "5", "6", "7", "8", "9">>[d + 1]

RECURSIVE NatToString(_)
NatToString(n) ==
    IF n < 10 THEN Digit(n) ELSE NatToString(n \div 10) \o Digit(n % 10)

\* The fraction f (in units of 10^-w) as decimal digits, trailing zeros dropped.
RECURSIVE FracToString(_, _)
FracToString(f, unit) ==
    IF f = 0 THEN ""
    ELSE Digit(f \div (unit \div 10)) \o FracToString(f % (unit \div 10), unit \div 10)

\* Number::toString of a finite number: sign, integer digits, and the
\* fraction only when there is one.
NumberToString(v) ==
    LET a == IF v < 0 THEN -v ELSE v
    IN  (IF v < 0 THEN "-" ELSE "")
        \o NatToString(a \div Scale)
        \o (IF a % Scale = 0 THEN "" ELSE "." \o FracToString(a % Scale, Scale))

\* JSON.stringify of a number: non-finite numbers serialise as null.
StringifyNumber(n) ==
    IF n.kind = "num" THEN NumberToString(n.v) ELSE "null"

\* JSON.stringify of a boolean.
StringifyBoolean(b) == IF b THEN "true" ELSE "false"

-----------------------------------------------------------------------------
(* Errors (exceptions.ts) and settled promises *)

\* The subclasses of SonarError.
SonarErrorClasses ==
    {"EnginePathNotFoundError", "ServerNotAccessibleError", "SonarNotEnabledError",
     "ServerNotReadyError", "ServerNotRunningError", "WebServerAddressNotFoundError",
     "ChannelNotFoundError", "SliderNotFoundError", "InvalidVolumeError",
     "InvalidMixVolumeError"}

\* The extends clause of a class.
Superclass(class) ==
    IF class \in SonarErrorClasses THEN "SonarError"
    ELSE IF class \in {"SonarError", "AxiosError", "TypeError"} THEN "Error"
    ELSE "Object"

\* error instanceof class: class is on the prototype chain of the error.
InstanceOf(error, class) ==
    class \in {error.class, Superclass(error.class), Superclass(Superclass(error.class)),
               "Object"}

\* A SonarError whose constructor leaves the name Error.prototype gives it.
SonarErrorUnnamed(class) == [name |-> "Error", class |-> class]

\* The constructor of SonarError, run for new.target = class: the name is
\* that of the constructor, the prototype that of new.target.
SonarError(class) == [name |-> class, class |-> class]

EnginePathNotFoundError == SonarError("EnginePathNotFoundError")

ServerNotAccessibleError(statusCode) ==
    SonarError("ServerNotAccessibleError") @@ [statusCode |-> statusCode]

SonarNotEnabledError == SonarError("SonarNotEnabledError")

ServerNotReadyError == SonarError("ServerNotReadyError")

ServerNotRunningError == SonarError("ServerNotRunningError")

WebServerAddressNotFoundError == SonarError("WebServerAddressNotFoundError")

ChannelNotFoundError(channel) ==
    SonarError("ChannelNotFoundError") @@ [channel |-> channel]

SliderNotFoundError(slider) == SonarError("SliderNotFoundError") @@ [slider |-> slider]

InvalidVolumeError(volume) == SonarError("InvalidVolumeError") @@ [volume |-> volume]

InvalidMixVolumeError(mixVolume) ==
    SonarError("InvalidMixVolumeError") @@ [mixVolume |-> mixVolume]

\* The TypeError the runtime raises on a property read of undefined or null.
TypeError == [name |-> "TypeError", class |-> "TypeError"]

Throw(error) == [kind |-> "throw", error |-> error]

ReturnData(data) == [kind |-> "return", data |-> data]

ReturnBool(b) == [kind |-> "return", bool |-> b]

Unsettled == [kind |-> "none"]

Request(method, url) == [method |-> method, url |-> url]

-----------------------------------------------------------------------------
(* The local configuration file *)

GoodCoreProps == "{\"ggEncryptedAddress\": \"127.0.0.1:8080\"}"

EmptyAddressCoreProps == "{\"ggEncryptedAddress\": \"\"}"

\* What the file system can present at appDataPath: no file, a file that
\* cannot be read, or a file with some text.
AbsentFile == [exists |-> FALSE, readable |-> FALSE, content |-> ""]

UnreadableFile == [exists |-> TRUE, readable |-> FALSE, content |-> ""]

TextFile(content) == [exists |-> TRUE, readable |-> TRUE, content |-> content]

FileContents == {GoodCoreProps, EmptyAddressCoreProps, "{}", "null", "not json"}

AppDataFiles == {AbsentFile, UnreadableFile} \cup {TextFile(c) : c \in FileContents}

\* JSON.parse on the texts of FileContents: a SyntaxError (ok = FALSE), the
\* value null, or an object with or without the property ggEncryptedAddress.
JSONparse(text) ==
    CASE text = GoodCoreProps ->
            [ok |-> TRUE, type |-> "object", hasAddress |-> TRUE,
             ggEncryptedAddress |-> "127.0.0.1:8080"]
      [] text = EmptyAddressCoreProps ->
            [ok |-> TRUE, type |-> "object", hasAddress |-> TRUE,
             ggEncryptedAddress |-> ""]
      [] text = "{}" ->
            [ok |-> TRUE, type |-> "object", hasAddress |-> FALSE,
             ggEncryptedAddress |-> ""]
      [] text = "null" ->
            [ok |-> TRUE, type |-> "null", hasAddress |-> FALSE,
             ggEncryptedAddress |-> ""]
      [] OTHER ->
            [ok |-> FALSE, type |-> "none", hasAddress |-> FALSE,
             ggEncryptedAddress |-> ""]

\* `${commonAppData.ggEncryptedAddress}`: a missing property reads as
\* undefined and is formatted as the text "undefined".
AddressText(commonAppData) ==
    IF commonAppData.hasAddress THEN commonAppData.ggEncryptedAddress ELSE "undefined"

\* Mutant: no try/catch around reading and parsing, the raw error escapes.
loadBaseUrlUncaught(file) ==
    IF ~file.exists THEN Throw(EnginePathNotFoundError)
    ELSE IF ~file.readable THEN Throw([name |-> "Error", class |-> "Error"])
    ELSE LET commonAppData == JSONparse(file.content)
         IN  IF ~commonAppData.ok THEN Throw([name |-> "SyntaxError", class |-> "SyntaxError"])
             ELSE IF commonAppData.type = "null" THEN Throw(TypeError)
             ELSE [kind |-> "return", baseUrl |-> "https://" \o AddressText(commonAppData)]

\* Sonar.loadBaseUrl: the new baseUrl, or the error thrown.
loadBaseUrl(file) ==
    IF ~file.exists THEN Throw(EnginePathNotFoundError)
    ELSE IF ~file.readable THEN Throw(EnginePathNotFoundError)
    ELSE LET commonAppData == JSONparse(file.content)
         IN  IF ~commonAppData.ok THEN Throw(EnginePathNotFoundError)
             ELSE IF commonAppData.type = "null" THEN Throw(EnginePathNotFoundError)
             ELSE [kind |-> "return", baseUrl |-> "https://" \o AddressText(commonAppData)]

-----------------------------------------------------------------------------
(* The HTTP transport: how a request settles *)

\* Status codes a response can carry, and those of a response attached to an
\* AxiosError.
Statuses == {200, 204, 500}

ErrorStatuses == {404, 500}

Response(status, data) == [kind |-> "response", status |-> status, data |-> data]

Rejected(error) == [kind |-> "error", error |-> error]

\* An AxiosError that carries the response of the server.
AxiosErrorWithResponse(status) ==
    [name |-> "AxiosError", class |-> "AxiosError", isAxiosError |-> TRUE,
     hasResponse |-> TRUE,
     status |-> status, code |-> "ERR_BAD_RESPONSE"]

\* An AxiosError without a response: connection refused, timeout.
AxiosErrorNoResponse(code) ==
    [name |-> "AxiosError", class |-> "AxiosError", isAxiosError |-> TRUE,
     hasResponse |-> FALSE,
     status |-> 0, code |-> code]

\* An error that is not an AxiosError.
PlainError ==
    [name |-> "Error", class |-> "Error", isAxiosError |-> FALSE, hasResponse |-> FALSE,
     status |-> 0, code |-> ""]

TransportErrors ==
    {AxiosErrorWithResponse(s) : s \in ErrorStatuses}
        \cup {AxiosErrorNoResponse(c) : c \in {"ECONNREFUSED", "ECONNABORTED"}}
        \cup {PlainError}

\* The body of GET <base>/subApps (interface SubAppInfo), or a body without
\* the subApps.sonar.metadata structure.
SubAppInfo(isEnabled, isReady, isRunning, address) ==
    [wellFormed |-> TRUE, isEnabled |-> isEnabled, isReady |-> isReady,
     isRunning |-> isRunning, webServerAddress |-> address]

MalformedSubAppInfo ==
    [wellFormed |-> FALSE, isEnabled |-> FALSE, isReady |-> FALSE,
     isRunning |-> FALSE, webServerAddress |-> ""]

ServiceAddress == "http://localhost:8081"

Addresses == {"", "null", ServiceAddress}

SubAppsBodies ==
    {SubAppInfo(e, r, u, a) : e \in BOOLEAN, r \in BOOLEAN, u \in BOOLEAN, a \in Addresses}
        \cup {MalformedSubAppInfo}

SubAppsOutcomes ==
    {Response(200, b) : b \in SubAppsBodies}
        \cup {Response(s, b) : s \in Statuses \ {200},
                               b \in {SubAppInfo(TRUE, TRUE, TRUE, ServiceAddress),
                                      MalformedSubAppInfo}}
        \cup {Rejected(e) : e \in TransportErrors}

\* Bodies of the service's answers to the control operations.
Bodies == {"stream", "classic", "{\"success\":true}"}

ControlOutcomes ==
    {Response(200, d) : d \in Bodies}
        \cup {Response(s, "stream") : s \in Statuses \ {200}}
        \cup {Rejected(e) : e \in TransportErrors}

-----------------------------------------------------------------------------
(* Sonar.create *)

Options(hasStreamerMode, mode) == [hasStreamerMode |-> hasStreamerMode, streamerMode |-> mode]

\* SonarOptions: streamerMode undefined, true or false.
OptionsArgs == {Options(FALSE, FALSE), Options(TRUE, FALSE), Options(TRUE, TRUE)}

\* A constructor that leaves the mode to the probe whatever the options say.
ConstructorIgnoresOption(opts) ==
    [streamerMode |-> FALSE, volumePath |-> VOLUME_PATH]

\* The constructor: _streamerMode and volumePath from the options.
Constructor(opts) ==
    LET mode == IF opts.hasStreamerMode THEN opts.streamerMode ELSE FALSE
    IN  [streamerMode |-> mode,
         volumePath |-> IF mode THEN STREAMER_VOLUME_PATH ELSE VOLUME_PATH]

\* The promise of an asynchronous method without a value has resolved.
Resolved == [kind |-> "return"]

\* Mutant: isReady is tested before isEnabled.
loadServerAddressReadyFirst(outcome, address) ==
    IF outcome.kind = "error" THEN
        [webServerAddress |-> address,
         settled |-> IF outcome.error.isAxiosError /\ outcome.error.hasResponse
                     THEN Throw(ServerNotAccessibleError(outcome.error.status))
                     ELSE Throw(outcome.error)]
    ELSE IF outcome.status # 200 THEN
        [webServerAddress |-> address,
         settled |-> Throw(ServerNotAccessibleError(outcome.status))]
    ELSE IF ~outcome.data.wellFormed THEN
        [webServerAddress |-> address, settled |-> Throw(TypeError)]
    ELSE IF ~outcome.data.isReady THEN
        [webServerAddress |-> address, settled |-> Throw(ServerNotReadyError)]
    ELSE IF ~outcome.data.isEnabled THEN
        [webServerAddress |-> address, settled |-> Throw(SonarNotEnabledError)]
    ELSE IF ~outcome.data.isRunning THEN
        [webServerAddress |-> address, settled |-> Throw(ServerNotRunningError)]
    ELSE IF outcome.data.webServerAddress = "" \/ outcome.data.webServerAddress = "null" THEN
        [webServerAddress |-> outcome.data.webServerAddress,
         settled |-> Throw(WebServerAddressNotFoundError)]
    ELSE
        [webServerAddress |-> outcome.data.webServerAddress,
         settled |-> Resolved]

\* Mutant: only the empty address is refused, the text "null" is accepted.
loadServerAddressNullAccepted(outcome, address) ==
    IF outcome.kind = "error" THEN
        [webServerAddress |-> address,
         settled |-> IF outcome.error.isAxiosError /\ outcome.error.hasResponse
                     THEN Throw(ServerNotAccessibleError(outcome.error.status))
                     ELSE Throw(outcome.error)]
    ELSE IF outcome.status # 200 THEN
        [webServerAddress |-> address,
         settled |-> Throw(ServerNotAccessibleError(outcome.status))]
    ELSE IF ~outcome.data.wellFormed THEN
        [webServerAddress |-> address, settled |-> Throw(TypeError)]
    ELSE IF ~outcome.data.isEnabled THEN
        [webServerAddress |-> address, settled |-> Throw(SonarNotEnabledError)]
    ELSE IF ~outcome.data.isReady THEN
        [webServerAddress |-> address, settled |-> Throw(ServerNotReadyError)]
    ELSE IF ~outcome.data.isRunning THEN
        [webServerAddress |-> address, settled |-> Throw(ServerNotRunningError)]
    ELSE IF outcome.data.webServerAddress = "" THEN
        [webServerAddress |-> outcome.data.webServerAddress,
         settled |-> Throw(WebServerAddressNotFoundError)]
    ELSE
        [webServerAddress |-> outcome.data.webServerAddress,
         settled |-> Resolved]

\* Mutant: the address is tested before the three flags.
loadServerAddressAddressFirst(outcome, address) ==
    IF outcome.kind = "error" THEN
        [webServerAddress |-> address,
         settled |-> IF outcome.error.isAxiosError /\ outcome.error.hasResponse
                     THEN Throw(ServerNotAccessibleError(outcome.error.status))
                     ELSE Throw(outcome.error)]
    ELSE IF outcome.status # 200 THEN
        [webServerAddress |-> address,
         settled |-> Throw(ServerNotAccessibleError(outcome.status))]
    ELSE IF ~outcome.data.wellFormed THEN
        [webServerAddress |-> address, settled |-> Throw(TypeError)]
    ELSE IF outcome.data.webServerAddress = "" \/ outcome.data.webServerAddress = "null" THEN
        [webServerAddress |-> outcome.data.webServerAddress,
         settled |-> Throw(WebServerAddressNotFoundError)]
    ELSE IF ~outcome.data.isEnabled THEN
        [webServerAddress |-> address, settled |-> Throw(SonarNotEnabledError)]
    ELSE IF ~outcome.data.isReady THEN
        [webServerAddress |-> address, settled |-> Throw(ServerNotReadyError)]
    ELSE IF ~outcome.data.isRunning THEN
        [webServerAddress |-> address, settled |-> Throw(ServerNotRunningError)]
    ELSE
        [webServerAddress |-> outcome.data.webServerAddress,
         settled |-> Resolved]

\* Sonar.loadServerAddress after its await: the value assigned to
\* webServerAddress (address when there is no assignment) and how it settles.
loadServerAddress(outcome, address) ==
    IF outcome.kind = "error" THEN
        [webServerAddress |-> address,
         settled |-> IF outcome.error.isAxiosError /\ outcome.error.hasResponse
                     THEN Throw(ServerNotAccessibleError(outcome.error.status))
                     ELSE Throw(outcome.error)]
    ELSE IF outcome.status # 200 THEN
        [webServerAddress |-> address,
         settled |-> Throw(ServerNotAccessibleError(outcome.status))]
    ELSE IF ~outcome.data.wellFormed THEN
        [webServerAddress |-> address, settled |-> Throw(TypeError)]
    ELSE IF ~outcome.data.isEnabled THEN
        [webServerAddress |-> address, settled |-> Throw(SonarNotEnabledError)]
    ELSE IF ~outcome.data.isReady THEN
        [webServerAddress |-> address, settled |-> Throw(ServerNotReadyError)]
    ELSE IF ~outcome.data.isRunning THEN
        [webServerAddress |-> address, settled |-> Throw(ServerNotRunningError)]
    ELSE IF outcome.data.webServerAddress = "" \/ outcome.data.webServerAddress = "null" THEN
        [webServerAddress |-> outcome.data.webServerAddress,
         settled |-> Throw(WebServerAddressNotFoundError)]
    ELSE
        [webServerAddress |-> outcome.data.webServerAddress,
         settled |-> Resolved]

\* An isStreamerMode that takes every body other than 'classic' for 'stream'.
isStreamerModeSettledNotClassic(outcome) ==
    IF outcome.kind = "error" THEN
        IF outcome.error.isAxiosError /\ outcome.error.hasResponse
        THEN Throw(ServerNotAccessibleError(outcome.error.status))
        ELSE Throw(outcome.error)
    ELSE IF outcome.status # 200 THEN Throw(ServerNotAccessibleError(outcome.status))
    ELSE ReturnBool(outcome.data # "classic")

\* Sonar.isStreamerMode after its await.
isStreamerModeSettled(outcome) ==
    IF outcome.kind = "error" THEN
        IF outcome.error.isAxiosError /\ outcome.error.hasResponse
        THEN Throw(ServerNotAccessibleError(outcome.error.status))
        ELSE Throw(outcome.error)
    ELSE IF outcome.status # 200 THEN Throw(ServerNotAccessibleError(outcome.status))
    ELSE ReturnBool(outcome.data = "stream")

NoOptions == Options(FALSE, FALSE)

\* No call of a public method has settled since the last one started.
NoCall == [op |-> "none"]

Init ==
    /\ phase = "idle"
    /\ options = NoOptions
    /\ appDataFile = AbsentFile
    /\ baseUrl = ""
    /\ webServerAddress = ""
    /\ volumePath = VOLUME_PATH
    /\ streamerMode = FALSE
    /\ createRequests = <<>>
    /\ subAppsOutcome = Unsettled
    /\ createResult = Unsettled
    /\ pending = {}
    /\ last = NoCall
    /\ modeAnswered = "none"
    /\ serverMode = "classic"
    /\ served = {}
    /\ history = <<>>

\* Sonar.create up to its first await: the constructor, loadBaseUrl and the
\* discovery request of loadServerAddress.
Create(opts, file) ==
    /\ phase = "idle"
    /\ options' = opts
    /\ appDataFile' = file
    /\ streamerMode' = Constructor(opts).streamerMode
    /\ volumePath' = Constructor(opts).volumePath
    /\ LET loaded == loadBaseUrl(file)
       IN  IF loaded.kind = "throw"
           THEN /\ phase' = "failed"
                /\ createResult' = loaded
                /\ UNCHANGED <<baseUrl, createRequests>>
           ELSE /\ phase' = "discovery"
                /\ baseUrl' = loaded.baseUrl
                /\ createRequests' = <<Request("GET", loaded.baseUrl \o "/subApps")>>
                /\ UNCHANGED createResult
    /\ UNCHANGED <<webServerAddress, subAppsOutcome, pending, last, modeAnswered>>

\* A create that probes the mode whatever the options say.
SubAppsSettlesProbesAlways(outcome) ==
    /\ phase = "discovery"
    /\ subAppsOutcome' = outcome
    /\ LET loaded == loadServerAddress(outcome, webServerAddress)
       IN  /\ webServerAddress' = loaded.webServerAddress
           /\ IF loaded.settled.kind = "throw"
              THEN /\ phase' = "failed"
                   /\ createResult' = loaded.settled
                   /\ UNCHANGED createRequests
              ELSE /\ phase' = "probe"
                   /\ createRequests' =
                        Append(createRequests,
                               Request("GET", loaded.webServerAddress \o "/mode/"))
                   /\ UNCHANGED createResult
    /\ UNCHANGED <<options, appDataFile, baseUrl, volumePath, streamerMode, pending, last,
                   modeAnswered>>

\* The discovery request settles: the rest of loadServerAddress, then create
\* either returns the instance or sends the mode probe of isStreamerMode.
SubAppsSettles(outcome) ==
    /\ phase = "discovery"
    /\ subAppsOutcome' = outcome
    /\ LET loaded == loadServerAddress(outcome, webServerAddress)
       IN  /\ webServerAddress' = loaded.webServerAddress
           /\ IF loaded.settled.kind = "throw"
              THEN /\ phase' = "failed"
                   /\ createResult' = loaded.settled
                   /\ UNCHANGED createRequests
              ELSE IF ~options.hasStreamerMode
              THEN /\ phase' = "probe"
                   /\ createRequests' =
                        Append(createRequests,
                               Request("GET", loaded.webServerAddress \o "/mode/"))
                   /\ UNCHANGED createResult
              ELSE /\ phase' = "ready"
                   /\ createResult' = Resolved
                   /\ UNCHANGED createRequests
    /\ UNCHANGED <<options, appDataFile, baseUrl, volumePath, streamerMode, pending, last,
                   modeAnswered>>

\* The call of isStreamerMode that create makes, settled by the transport.
Probe(outcome, probed) ==
    [op |-> "isStreamerMode", caller |-> "create", id |-> 0, modeAtCall |-> streamerMode,
     requests |-> <<createRequests[Len(createRequests)]>>,
     outcome |-> outcome, result |-> probed]

\* A create that lets the failure of the mode probe escape.
ProbeSettlesRethrows(outcome) ==
    /\ phase = "probe"
    /\ LET probed == isStreamerModeSettled(outcome)
       IN  /\ last' = Probe(outcome, probed)
           /\ IF probed.kind = "return"
              THEN /\ streamerMode' = probed.bool
                   /\ volumePath' = IF probed.bool THEN STREAMER_VOLUME_PATH ELSE volumePath
                   /\ phase' = "ready"
                   /\ createResult' = Resolved
              ELSE /\ phase' = "failed"
                   /\ createResult' = probed
                   /\ UNCHANGED <<volumePath, streamerMode>>
    /\ UNCHANGED <<options, appDataFile, baseUrl, webServerAddress, createRequests,
                   subAppsOutcome, pending, modeAnswered>>

\* A create that takes the flag from the probe and forgets the volume path.
ProbeSettlesKeepsPath(outcome) ==
    /\ phase = "probe"
    /\ LET probed == isStreamerModeSettled(outcome)
       IN  /\ last' = Probe(outcome, probed)
           /\ streamerMode' = IF probed.kind = "return" THEN probed.bool ELSE FALSE
    /\ phase' = "ready"
    /\ createResult' = Resolved
    /\ UNCHANGED <<options, appDataFile, baseUrl, webServerAddress, createRequests,
                   subAppsOutcome, pending, modeAnswered, volumePath>>

\* The mode probe settles: create sets the mode from it, or swallows its
\* failure, and returns the instance.
ProbeSettles(outcome) ==
    /\ phase = "probe"
    /\ LET probed == isStreamerModeSettled(outcome)
       IN  /\ last' = Probe(outcome, probed)
           /\ IF probed.kind = "return"
              THEN /\ streamerMode' = probed.bool
                   /\ volumePath' = IF probed.bool THEN STREAMER_VOLUME_PATH ELSE volumePath
              ELSE /\ streamerMode' = FALSE
                   /\ UNCHANGED volumePath
    /\ phase' = "ready"
    /\ createResult' = Resolved
    /\ UNCHANGED <<options, appDataFile, baseUrl, webServerAddress, createRequests,
                   subAppsOutcome, pending, modeAnswered>>

-----------------------------------------------------------------------------
(* The public methods of an instance.  The synchronous part of a method    *)
(* yields the error it throws or the request it sends; the part after the  *)
(* await yields how the call settles.                                      *)

Sent(request) == [result |-> Unsettled, requests |-> <<request>>]

Failed(error) == [result |-> Throw(error), requests |-> <<>>]

\* Mutant: the bounds 0 and 1 are themselves refused.
setVolumeExclusive(channel, volume, streamerSlider) ==
    IF channel \notin CHANNEL_NAMES THEN Failed(ChannelNotFoundError(channel))
    ELSE IF streamerMode /\ streamerSlider \notin STREAMER_SLIDER_NAMES
    THEN Failed(SliderNotFoundError(streamerSlider))
    ELSE IF ~JsGreater(volume, Num(0)) \/ ~JsLess(volume, Num(Scale))
    THEN Failed(InvalidVolumeError(volume))
    ELSE LET fullVolumePath ==
                 IF streamerMode THEN volumePath \o "/" \o streamerSlider ELSE volumePath
         IN  Sent(Request("PUT", webServerAddress \o fullVolumePath \o "/" \o channel
                                 \o "/Volume/" \o StringifyNumber(volume)))

\* A setVolume that tests the volume before the slider.
setVolumeVolumeBeforeSlider(channel, volume, streamerSlider) ==
    IF channel \notin CHANNEL_NAMES THEN Failed(ChannelNotFoundError(channel))
    ELSE IF JsLess(volume, Num(0)) \/ JsGreater(volume, Num(Scale))
    THEN Failed(InvalidVolumeError(volume))
    ELSE IF streamerMode /\ streamerSlider \notin STREAMER_SLIDER_NAMES
    THEN Failed(SliderNotFoundError(streamerSlider))
    ELSE LET fullVolumePath ==
                 IF streamerMode THEN volumePath \o "/" \o streamerSlider ELSE volumePath
         IN  Sent(Request("PUT", webServerAddress \o fullVolumePath \o "/" \o channel
                                 \o "/Volume/" \o StringifyNumber(volume)))

\* Mutant: the slider is validated before the channel.
setVolumeSliderFirst(channel, volume, streamerSlider) ==
    IF streamerMode /\ streamerSlider \notin STREAMER_SLIDER_NAMES
    THEN Failed(SliderNotFoundError(streamerSlider))
    ELSE IF channel \notin CHANNEL_NAMES THEN Failed(ChannelNotFoundError(channel))
    ELSE IF JsLess(volume, Num(0)) \/ JsGreater(volume, Num(Scale))
    THEN Failed(InvalidVolumeError(volume))
    ELSE LET fullVolumePath ==
                 IF streamerMode THEN volumePath \o "/" \o streamerSlider ELSE volumePath
         IN  Sent(Request("PUT", webServerAddress \o fullVolumePath \o "/" \o channel
                                 \o "/Volume/" \o StringifyNumber(volume)))

\* A setVolume that adds the slider segment whenever the slider is a known one.
setVolumeSliderInBothModes(channel, volume, streamerSlider) ==
    IF channel \notin CHANNEL_NAMES THEN Failed(ChannelNotFoundError(channel))
    ELSE IF streamerMode /\ streamerSlider \notin STREAMER_SLIDER_NAMES
    THEN Failed(SliderNotFoundError(streamerSlider))
    ELSE IF JsLess(volume, Num(0)) \/ JsGreater(volume, Num(Scale))
    THEN Failed(InvalidVolumeError(volume))
    ELSE LET fullVolumePath ==
                 IF streamerSlider \in STREAMER_SLIDER_NAMES
                 THEN volumePath \o "/" \o streamerSlider ELSE volumePath
         IN  Sent(Request("PUT", webServerAddress \o fullVolumePath \o "/" \o channel
                                 \o "/Volume/" \o StringifyNumber(volume)))

\* Sonar.setVolume up to its await.
setVolume(channel, volume, streamerSlider) ==
    IF channel \notin CHANNEL_NAMES THEN Failed(ChannelNotFoundError(channel))
    ELSE IF streamerMode /\ streamerSlider \notin STREAMER_SLIDER_NAMES
    THEN Failed(SliderNotFoundError(streamerSlider))
    ELSE IF JsLess(volume, Num(0)) \/ JsGreater(volume, Num(Scale))
    THEN Failed(InvalidVolumeError(volume))
    ELSE LET fullVolumePath ==
                 IF streamerMode THEN volumePath \o "/" \o streamerSlider ELSE volumePath
         IN  Sent(Request("PUT", webServerAddress \o fullVolumePath \o "/" \o channel
                                 \o "/Volume/" \o StringifyNumber(volume)))

\* A setVolume that translates every Axios error, with a response or without.
setVolumeSettledTranslatesAll(outcome) ==
    IF outcome.kind = "error" THEN
        IF outcome.error.isAxiosError
        THEN Throw(ServerNotAccessibleError(
                     IF outcome.error.hasResponse THEN outcome.error.status ELSE 0))
        ELSE Throw(outcome.error)
    ELSE IF outcome.status # 200 THEN Throw(ServerNotAccessibleError(outcome.status))
    ELSE ReturnData(outcome.data)

\* Sonar.setVolume after its await.
setVolumeSettled(outcome) ==
    IF outcome.kind = "error" THEN
        IF outcome.error.isAxiosError /\ outcome.error.hasResponse
        THEN Throw(ServerNotAccessibleError(outcome.error.status))
        ELSE Throw(outcome.error)
    ELSE IF outcome.status # 200 THEN Throw(ServerNotAccessibleError(outcome.status))
    ELSE ReturnData(outcome.data)

\* Mutant: the slider is validated whatever the mode.
muteChannelSliderAlways(channel, muted, streamerSlider) ==
    IF channel \notin CHANNEL_NAMES THEN Failed(ChannelNotFoundError(channel))
    ELSE IF streamerSlider \notin STREAMER_SLIDER_NAMES
    THEN Failed(SliderNotFoundError(streamerSlider))
    ELSE LET fullVolumePath ==
                 IF streamerMode THEN volumePath \o "/" \o streamerSlider ELSE volumePath
             muteKeyword == IF streamerMode THEN "isMuted" ELSE "Mute"
         IN  Sent(Request("PUT", webServerAddress \o fullVolumePath \o "/" \o channel
                                 \o "/" \o muteKeyword \o "/" \o StringifyBoolean(muted)))

\* A muteChannel that uses the classic keyword in both modes.
muteChannelClassicKeyword(channel, muted, streamerSlider) ==
    IF channel \notin CHANNEL_NAMES THEN Failed(ChannelNotFoundError(channel))
    ELSE IF streamerMode /\ streamerSlider \notin STREAMER_SLIDER_NAMES
    THEN Failed(SliderNotFoundError(streamerSlider))
    ELSE LET fullVolumePath ==
                 IF streamerMode THEN volumePath \o "/" \o streamerSlider ELSE volumePath
         IN  Sent(Request("PUT", webServerAddress \o fullVolumePath \o "/" \o channel
                                 \o "/Mute/" \o StringifyBoolean(muted)))

\* Sonar.muteChannel up to its await.
muteChannel(channel, muted, streamerSlider) ==
    IF channel \notin CHANNEL_NAMES THEN Failed(ChannelNotFoundError(channel))
    ELSE IF streamerMode /\ streamerSlider \notin STREAMER_SLIDER_NAMES
    THEN Failed(SliderNotFoundError(streamerSlider))
    ELSE LET fullVolumePath ==
                 IF streamerMode THEN volumePath \o "/" \o streamerSlider ELSE volumePath
             muteKeyword == IF streamerMode THEN "isMuted" ELSE "Mute"
         IN  Sent(Request("PUT", webServerAddress \o fullVolumePath \o "/" \o channel
                                 \o "/" \o muteKeyword \o "/" \o StringifyBoolean(muted)))

\* Sonar.muteChannel after its await.
muteChannelSettled(outcome) ==
    IF outcome.kind = "error" THEN
        IF outcome.error.isAxiosError /\ outcome.error.hasResponse
        THEN Throw(ServerNotAccessibleError(outcome.error.status))
        ELSE Throw(outcome.error)
    ELSE IF outcome.status # 200 THEN Throw(ServerNotAccessibleError(outcome.status))
    ELSE ReturnData(outcome.data)

\* Sonar.getVolumeData up to its await.
getVolumeData == Sent(Request("GET", webServerAddress \o volumePath))

\* A getVolumeData that accepts every 2xx status.
getVolumeDataSettledAny2xx(outcome) ==
    IF outcome.kind = "error" THEN
        IF outcome.error.isAxiosError /\ outcome.error.hasResponse
        THEN Throw(ServerNotAccessibleError(outcome.error.status))
        ELSE Throw(outcome.error)
    ELSE IF outcome.status < 200 \/ outcome.status >= 300
    THEN Throw(ServerNotAccessibleError(outcome.status))
    ELSE ReturnData(outcome.data)

\* Sonar.getVolumeData after its await.
getVolumeDataSettled(outcome) ==
    IF outcome.kind = "error" THEN
        IF outcome.error.isAxiosError /\ outcome.error.hasResponse
        THEN Throw(ServerNotAccessibleError(outcome.error.status))
        ELSE Throw(outcome.error)
    ELSE IF outcome.status # 200 THEN Throw(ServerNotAccessibleError(outcome.status))
    ELSE ReturnData(outcome.data)

\* A getChatMixData that looks for the chat mix under the volume path.
getChatMixDataUnderVolumePath == Sent(Request("GET", webServerAddress \o volumePath \o "/chatMix"))

\* Sonar.getChatMixData up to its await.
getChatMixData == Sent(Request("GET", webServerAddress \o "/chatMix"))

\* Sonar.getChatMixData after its await.
getChatMixDataSettled(outcome) ==
    IF outcome.kind = "error" THEN
        IF outcome.error.isAxiosError /\ outcome.error.hasResponse
        THEN Throw(ServerNotAccessibleError(outcome.error.status))
        ELSE Throw(outcome.error)
    ELSE IF outcome.status # 200 THEN Throw(ServerNotAccessibleError(outcome.status))
    ELSE ReturnData(outcome.data)

\* Sonar.setChatMix up to its await.
setChatMix(mixVolume) ==
    IF JsLess(mixVolume, Num(-Scale)) \/ JsGreater(mixVolume, Num(Scale))
    THEN Failed(InvalidMixVolumeError(mixVolume))
    ELSE Sent(Request("PUT", webServerAddress \o "/chatMix?balance="
                             \o StringifyNumber(mixVolume)))

\* Sonar.setChatMix after its await.
setChatMixSettled(outcome) ==
    IF outcome.kind = "error" THEN
        IF outcome.error.isAxiosError /\ outcome.error.hasResponse
        THEN Throw(ServerNotAccessibleError(outcome.error.status))
        ELSE Throw(outcome.error)
    ELSE IF outcome.status # 200 THEN Throw(ServerNotAccessibleError(outcome.status))
    ELSE ReturnData(outcome.data)

\* Sonar.isStreamerMode up to its await.
isStreamerMode == Sent(Request("GET", webServerAddress \o "/mode/"))

\* Sonar.setStreamerMode up to its await.
setStreamerMode(requested) ==
    LET mode == IF requested THEN "stream" ELSE "classic"
    IN  Sent(Request("PUT", webServerAddress \o "/mode/" \o mode))

\* A setStreamerMode that updates the flag and leaves the volume path alone.
setStreamerModeSettledKeepsPath(outcome) ==
    IF outcome.kind = "error" THEN
        [result |-> IF outcome.error.isAxiosError /\ outcome.error.hasResponse
                    THEN Throw(ServerNotAccessibleError(outcome.error.status))
                    ELSE Throw(outcome.error),
         streamerMode |-> streamerMode, volumePath |-> volumePath]
    ELSE IF outcome.status # 200 THEN
        [result |-> Throw(ServerNotAccessibleError(outcome.status)),
         streamerMode |-> streamerMode, volumePath |-> volumePath]
    ELSE
        [result |-> ReturnBool(outcome.data = "stream"),
         streamerMode |-> (outcome.data = "stream"),
         volumePath |-> volumePath]

\* A setStreamerMode that compares the body with 'streamer'.
setStreamerModeSettledStreamer(outcome) ==
    IF outcome.kind = "error" THEN
        [result |-> IF outcome.error.isAxiosError /\ outcome.error.hasResponse
                    THEN Throw(ServerNotAccessibleError(outcome.error.status))
                    ELSE Throw(outcome.error),
         streamerMode |-> streamerMode, volumePath |-> volumePath]
    ELSE IF outcome.status # 200 THEN
        [result |-> Throw(ServerNotAccessibleError(outcome.status)),
         streamerMode |-> streamerMode, volumePath |-> volumePath]
    ELSE
        [result |-> ReturnBool(outcome.data = "streamer"),
         streamerMode |-> (outcome.data = "streamer"),
         volumePath |-> IF outcome.data = "streamer"
                        THEN STREAMER_VOLUME_PATH ELSE VOLUME_PATH]

\* A setStreamerMode that toggles the flag on a 200 response.
setStreamerModeSettledToggles(outcome) ==
    IF outcome.kind = "error" THEN
        [result |-> IF outcome.error.isAxiosError /\ outcome.error.hasResponse
                    THEN Throw(ServerNotAccessibleError(outcome.error.status))
                    ELSE Throw(outcome.error),
         streamerMode |-> streamerMode, volumePath |-> volumePath]
    ELSE IF outcome.status # 200 THEN
        [result |-> Throw(ServerNotAccessibleError(outcome.status)),
         streamerMode |-> streamerMode, volumePath |-> volumePath]
    ELSE
        [result |-> ReturnBool(~streamerMode),
         streamerMode |-> ~streamerMode,
         volumePath |-> IF ~streamerMode THEN STREAMER_VOLUME_PATH ELSE VOLUME_PATH]

\* Sonar.setStreamerMode after its await: how the call settles, and the
\* mode flag and volume path it leaves.
setStreamerModeSettled(outcome) ==
    IF outcome.kind = "error" THEN
        [result |-> IF outcome.error.isAxiosError /\ outcome.error.hasResponse
                    THEN Throw(ServerNotAccessibleError(outcome.error.status))
                    ELSE Throw(outcome.error),
         streamerMode |-> streamerMode, volumePath |-> volumePath]
    ELSE IF outcome.status # 200 THEN
        [result |-> Throw(ServerNotAccessibleError(outcome.status)),
         streamerMode |-> streamerMode, volumePath |-> volumePath]
    ELSE
        [result |-> ReturnBool(outcome.data = "stream"),
         streamerMode |-> (outcome.data = "stream"),
         volumePath |-> IF outcome.data = "stream"
                        THEN STREAMER_VOLUME_PATH ELSE VOLUME_PATH]

-----------------------------------------------------------------------------
(* Arguments the caller passes *)

ChannelArgs == CHANNEL_NAMES \cup {"invalid"}

SliderArgs == STREAMER_SLIDER_NAMES \cup {"bogus"}

\* -0.01, 0, 0.5, 1, 1.01, NaN and Infinity.
VolumeArgs ==
    {Num(-100), Num(0), Num(5000), Num(10000), Num(10100), NaN, PosInfinity}

\* -1.0001, -1, -0.5, 0.25, 1, 1.0001, NaN and -Infinity.
MixVolumeArgs ==
    {Num(-10001), Num(-10000), Num(-5000), Num(2500), Num(10000), Num(10001),
     NaN, NegInfinity}

-----------------------------------------------------------------------------
(* Calls of the public methods *)

\* The calls in progress are told apart by a number: the least one that no
\* pending call bears.
UsedIds == {call.id : call \in pending}

NextId ==
    CHOOSE id \in 1..(Cardinality(UsedIds) + 1) :
        id \notin UsedIds /\ \A lower \in 1..(id - 1) : lower \in UsedIds

\* A call that waits for the calls in progress before it sends its request.
StartQueued(call, sync) ==
    LET started == call @@ [caller |-> "user", id |-> NextId, modeAtCall |-> streamerMode,
                            requests |-> IF pending = {} THEN sync.requests ELSE <<>>,
                            outcome |-> Unsettled, result |-> sync.result]
    IN  /\ IF sync.result.kind = "none"
           THEN pending' = pending \cup {started} /\ last' = NoCall
           ELSE last' = started /\ UNCHANGED pending
        /\ UNCHANGED <<phase, options, appDataFile, baseUrl, webServerAddress, volumePath,
                       streamerMode, createRequests, subAppsOutcome, createResult,
                       modeAnswered>>

\* A call has started: it is pending when it sent its request, settled when
\* it threw before sending one.
Start(call, sync) ==
    LET started == call @@ [caller |-> "user", id |-> NextId, modeAtCall |-> streamerMode,
                            requests |-> sync.requests,
                            outcome |-> Unsettled, result |-> sync.result]
    IN  /\ IF sync.result.kind = "none"
           THEN pending' = pending \cup {started} /\ last' = NoCall
           ELSE last' = started /\ UNCHANGED pending
        /\ UNCHANGED <<phase, options, appDataFile, baseUrl, webServerAddress, volumePath,
                       streamerMode, createRequests, subAppsOutcome, createResult,
                       modeAnswered>>

\* A continuation that sends the request again when the answer is not 200.
FinishRetries(call, outcome, result) ==
    /\ pending' = pending \ {call}
    /\ last' = [call EXCEPT !.outcome = outcome, !.result = result,
                            !.requests = IF result.kind = "throw"
                                         THEN @ \o call.requests ELSE @]
    /\ UNCHANGED <<phase, options, appDataFile, baseUrl, webServerAddress,
                   createRequests, subAppsOutcome, createResult>>

\* The request of a pending call has settled.
Finish(call, outcome, result) ==
    /\ pending' = pending \ {call}
    /\ last' = [call EXCEPT !.outcome = outcome, !.result = result]
    /\ UNCHANGED <<phase, options, appDataFile, baseUrl, webServerAddress,
                   createRequests, subAppsOutcome, createResult>>

SetVolume(channel, volume, streamerSlider) ==
    /\ phase = "ready"
    /\ Start([op |-> "setVolume", channel |-> channel, volume |-> volume,
              streamerSlider |-> streamerSlider],
             setVolume(channel, volume, streamerSlider))

SetVolumeSettles(call, outcome) ==
    /\ call.op = "setVolume"
    /\ Finish(call, outcome, setVolumeSettled(outcome))
    /\ UNCHANGED <<streamerMode, volumePath, modeAnswered>>

MuteChannel(channel, muted, streamerSlider) ==
    /\ phase = "ready"
    /\ Start([op |-> "muteChannel", channel |-> channel, muted |-> muted,
              streamerSlider |-> streamerSlider],
             muteChannel(channel, muted, streamerSlider))

MuteChannelSettles(call, outcome) ==
    /\ call.op = "muteChannel"
    /\ Finish(call, outcome, muteChannelSettled(outcome))
    /\ UNCHANGED <<streamerMode, volumePath, modeAnswered>>

GetVolumeData ==
    /\ phase = "ready"
    /\ Start([op |-> "getVolumeData"], getVolumeData)

GetVolumeDataSettles(call, outcome) ==
    /\ call.op = "getVolumeData"
    /\ Finish(call, outcome, getVolumeDataSettled(outcome))
    /\ UNCHANGED <<streamerMode, volumePath, modeAnswered>>

GetChatMixData ==
    /\ phase = "ready"
    /\ Start([op |-> "getChatMixData"], getChatMixData)

GetChatMixDataSettles(call, outcome) ==
    /\ call.op = "getChatMixData"
    /\ Finish(call, outcome, getChatMixDataSettled(outcome))
    /\ UNCHANGED <<streamerMode, volumePath, modeAnswered>>

SetChatMix(mixVolume) ==
    /\ phase = "ready"
    /\ Start([op |-> "setChatMix", mixVolume |-> mixVolume], setChatMix(mixVolume))

SetChatMixSettles(call, outcome) ==
    /\ call.op = "setChatMix"
    /\ Finish(call, outcome, setChatMixSettled(outcome))
    /\ UNCHANGED <<streamerMode, volumePath, modeAnswered>>

IsStreamerMode ==
    /\ phase = "ready"
    /\ Start([op |-> "isStreamerMode"], isStreamerMode)

\* An isStreamerMode that stores what it read in the flag.
IsStreamerModeSettlesStores(call, outcome) ==
    /\ call.op = "isStreamerMode"
    /\ LET settled == isStreamerModeSettled(outcome)
       IN  /\ Finish(call, outcome, settled)
           /\ streamerMode' = IF settled.kind = "return" THEN settled.bool ELSE streamerMode
    /\ UNCHANGED <<volumePath, modeAnswered>>

IsStreamerModeSettles(call, outcome) ==
    /\ call.op = "isStreamerMode"
    /\ Finish(call, outcome, isStreamerModeSettled(outcome))
    /\ UNCHANGED <<streamerMode, volumePath, modeAnswered>>

SetStreamerMode(requested) ==
    /\ phase = "ready"
    /\ Start([op |-> "setStreamerMode", requested |-> requested],
             setStreamerMode(requested))

\* The answer of the server to the PUT of setStreamerMode, as history.
Answer(outcome) ==
    IF outcome.kind = "response" /\ outcome.status = 200
    THEN outcome.data ELSE modeAnswered

\* A setStreamerMode that takes the mode it asked for as the mode it got.
SetStreamerModeSettlesAsRequested(call, outcome) ==
    /\ call.op = "setStreamerMode"
    /\ LET settled == setStreamerModeSettled(outcome)
       IN  /\ Finish(call, outcome,
                     IF settled.result.kind = "return"
                     THEN ReturnBool(call.requested) ELSE settled.result)
           /\ streamerMode' = IF settled.result.kind = "return"
                              THEN call.requested ELSE settled.streamerMode
           /\ volumePath' = settled.volumePath
           /\ modeAnswered' = Answer(outcome)

SetStreamerModeSettles(call, outcome) ==
    /\ call.op = "setStreamerMode"
    /\ LET settled == setStreamerModeSettled(outcome)
       IN  /\ Finish(call, outcome, settled.result)
           /\ streamerMode' = settled.streamerMode
           /\ volumePath' = settled.volumePath
           /\ modeAnswered' = Answer(outcome)

-----------------------------------------------------------------------------
(* One caller that awaits every call before it makes the next *)

Awaited == pending = {}

Next ==
    \/ \E opts \in OptionsArgs, file \in AppDataFiles : Create(opts, file)
          /\ UNCHANGED service
    \/ \E outcome \in SubAppsOutcomes : SubAppsSettles(outcome)
          /\ UNCHANGED service
    \/ \E outcome \in ControlOutcomes : ProbeSettles(outcome)
          /\ UNCHANGED service
    \/ \E channel \in ChannelArgs, volume \in VolumeArgs, slider \in SliderArgs :
          Awaited /\ SetVolume(channel, volume, slider)
          /\ UNCHANGED service
    \/ \E channel \in ChannelArgs, muted \in BOOLEAN, slider \in SliderArgs :
          Awaited /\ MuteChannel(channel, muted, slider)
          /\ UNCHANGED service
    \/ Awaited /\ GetVolumeData
          /\ UNCHANGED service
    \/ Awaited /\ GetChatMixData
          /\ UNCHANGED service
    \/ \E mixVolume \in MixVolumeArgs : Awaited /\ SetChatMix(mixVolume)
          /\ UNCHANGED service
    \/ Awaited /\ IsStreamerMode
          /\ UNCHANGED service
    \/ \E requested \in BOOLEAN : Awaited /\ SetStreamerMode(requested)
          /\ UNCHANGED service
    \/ \E call \in pending, outcome \in ControlOutcomes : SetVolumeSettles(call, outcome)
          /\ UNCHANGED service
    \/ \E call \in pending, outcome \in ControlOutcomes : MuteChannelSettles(call, outcome)
          /\ UNCHANGED service
    \/ \E call \in pending, outcome \in ControlOutcomes : GetVolumeDataSettles(call, outcome)
          /\ UNCHANGED service
    \/ \E call \in pending, outcome \in ControlOutcomes : GetChatMixDataSettles(call, outcome)
          /\ UNCHANGED service
    \/ \E call \in pending, outcome \in ControlOutcomes : SetChatMixSettles(call, outcome)
          /\ UNCHANGED service
    \/ \E call \in pending, outcome \in ControlOutcomes : IsStreamerModeSettles(call, outcome)
          /\ UNCHANGED service
    \/ \E call \in pending, outcome \in ControlOutcomes : SetStreamerModeSettles(call, outcome)
          /\ UNCHANGED service

Spec == Init /\ [][Next]_vars

-----------------------------------------------------------------------------
(* A caller that does not await: calls overlap each other, and the Sonar   *)
(* service keeps the mode that the probe reads and setStreamerMode sets.   *)

\* Two callers use the instance, each awaiting its call before it makes
\* the next; a call in progress bears the number of its caller.
Callers == {1, 2}

\* At most this many setStreamerMode calls are made.
MaxModeCalls == 2

ServerModes == {"classic", "stream"}

\* The mode PUT <serviceAddress>/mode/stream or /mode/classic names.
ModeNamed(requested) == IF requested THEN "stream" ELSE "classic"

\* GET <base>/subApps answered with Sonar enabled, ready and running.
SubAppsAnswer == Response(200, SubAppInfo(TRUE, TRUE, TRUE, ServiceAddress))

\* A request timed out (timeout: 5000), whether or not the service saw it.
TimedOut == Rejected(AxiosErrorNoResponse("ECONNABORTED"))

\* GET <serviceAddress>/mode/ is answered with the mode of the service.
ProbeOutcomes == {Response(200, serverMode), TimedOut}

\* The service processes the PUT of a setStreamerMode call: it takes the
\* mode named and answers with the mode it is in.
ServiceHandles(call) ==
    /\ call.op = "setStreamerMode"
    /\ \A answer \in served : answer.id # call.id
    /\ serverMode' = ModeNamed(call.requested)
    /\ served' = served \cup {[id |-> call.id, body |-> ModeNamed(call.requested)]}
    /\ UNCHANGED <<phase, options, appDataFile, baseUrl, webServerAddress, volumePath,
                   streamerMode, createRequests, subAppsOutcome, createResult, pending,
                   last, modeAnswered, history>>

\* What the transport can hand a pending setStreamerMode call: the answer of
\* the service once it has processed the request, or a timeout.
ModeOutcomes(call) ==
    {Response(200, answer.body) : answer \in {a \in served : a.id = call.id}}
        \cup {TimedOut}

\* What the transport hands the other calls.
OverlapOutcomes == {Response(200, "{\"success\":true}"), Response(500, "classic")}

OverlapChannels == {"game"}

OverlapSliders == {"streaming", "bogus"}

\* The history of the mode: how the probe of create settled, and each
\* setStreamerMode call starting and settling.
Probed(kind) == [event |-> "probe", kind |-> kind]

Started == [event |-> "call", kind |-> "none"]

Settled(kind) == [event |-> "settle", kind |-> kind]

ModeCallsMade == Cardinality({i \in 1..Len(history) : history[i] = Started})

CanCall == phase = "ready" /\ NextId \in Callers

NextOverlapping ==
    \/ \E opts \in OptionsArgs, mode \in ServerModes :
          /\ Create(opts, TextFile(GoodCoreProps))
          /\ serverMode' = mode
          /\ UNCHANGED <<served, history>>
    \/ SubAppsSettles(SubAppsAnswer) /\ UNCHANGED service
    \/ \E outcome \in ProbeOutcomes :
          /\ ProbeSettles(outcome)
          /\ history' = Append(history, Probed(last'.result.kind))
          /\ UNCHANGED <<serverMode, served>>
    \/ \E channel \in OverlapChannels, slider \in OverlapSliders :
          CanCall /\ SetVolume(channel, Num(5000), slider) /\ UNCHANGED service
    \/ \E channel \in OverlapChannels :
          CanCall /\ MuteChannel(channel, TRUE, "monitoring") /\ UNCHANGED service
    \/ CanCall /\ GetVolumeData /\ UNCHANGED service
    \/ \E requested \in BOOLEAN :
          /\ CanCall
          /\ ModeCallsMade < MaxModeCalls
          /\ SetStreamerMode(requested)
          /\ history' = Append(history, Started)
          /\ UNCHANGED <<serverMode, served>>
    \/ \E call \in pending : ServiceHandles(call)
    \/ \E call \in pending, outcome \in OverlapOutcomes :
          SetVolumeSettles(call, outcome) /\ UNCHANGED service
    \/ \E call \in pending :
          MuteChannelSettles(call, Response(200, "{\"success\":true}"))
              /\ UNCHANGED service
    \/ \E call \in pending :
          GetVolumeDataSettles(call, Response(200, "{\"success\":true}"))
              /\ UNCHANGED service
    \/ \E call \in pending :
          \E outcome \in ModeOutcomes(call) :
              /\ SetStreamerModeSettles(call, outcome)
              /\ served' = {answer \in served : answer.id # call.id}
              /\ history' = Append(history, Settled(last'.result.kind))
              /\ UNCHANGED serverMode

Overlapping == Init /\ [][NextOverlapping]_vars

-----------------------------------------------------------------------------
(* Vocabulary of the properties *)

\* The calls of public methods that are pending or have just settled.
Calls == pending \cup (IF last.op = "none" THEN {} ELSE {last})

\* The service address the discovery response carried.
ResolvedAddress == subAppsOutcome.data.webServerAddress

\* Discovery was answered 200 with a body of the SubAppInfo shape.
DiscoveryAnswered ==
    /\ subAppsOutcome.kind = "response"
    /\ subAppsOutcome.status = 200
    /\ subAppsOutcome.data.wellFormed

FlagErrors == {SonarNotEnabledError, ServerNotReadyError, ServerNotRunningError}

\* 0 <= volume <= 1 and -1 <= balance <= 1 over the real numbers.
InUnitRange(volume) == volume.kind = "num" /\ 0 <= volume.v /\ volume.v <= Scale

InMixRange(balance) == balance.kind = "num" /\ -Scale <= balance.v /\ balance.v <= Scale

\* The number literals of the in-range arguments.
NumberLiteral(n) ==
    CASE n = Num(0) -> "0"
      [] n = Num(5000) -> "0.5"
      [] n = Num(10000) -> "1"
      [] n = Num(-10000) -> "-1"
      [] n = Num(-5000) -> "-0.5"
      [] n = Num(2500) -> "0.25"

ModePath(streamer) == IF streamer THEN "/volumeSettings/streamer" ELSE "/volumeSettings/classic"

\* The call got a 200 response.
Answered200(call) == call.outcome.kind = "response" /\ call.outcome.status = 200

ValidSliderIfStreamer(call) ==
    call.modeAtCall => call.streamerSlider \in STREAMER_SLIDER_NAMES

-----------------------------------------------------------------------------
(* Sonar.create: discovery *)

\* C1: when discovery is answered 200, the readiness flags are tested in the
\* order enabled, ready, running and the first false one decides the error of
\* Sonar.create, for all eight combinations of the flags; with all three true
\* none of the three flag errors is reported.
C1_FlagsCheckedInOrder ==
    DiscoveryAnswered =>
        LET sonar == subAppsOutcome.data
        IN  /\ ~sonar.isEnabled => createResult = Throw(SonarNotEnabledError)
            /\ sonar.isEnabled /\ ~sonar.isReady =>
                   createResult = Throw(ServerNotReadyError)
            /\ sonar.isEnabled /\ sonar.isReady /\ ~sonar.isRunning =>
                   createResult = Throw(ServerNotRunningError)
            /\ sonar.isEnabled /\ sonar.isReady /\ sonar.isRunning =>
                   \A error \in FlagErrors : createResult # Throw(error)

\* Sonar is disabled while ready and running, and that is what is reported.
C1_Witness ==
    /\ DiscoveryAnswered
    /\ ~subAppsOutcome.data.isEnabled
    /\ subAppsOutcome.data.isReady
    /\ subAppsOutcome.data.isRunning
    /\ createResult = Throw(SonarNotEnabledError)

\* The configuration file is absent, cannot be read, or is not JSON.
ConfigurationNotFound(file) ==
    \/ ~file.exists
    \/ ~file.readable
    \/ ~JSONparse(file.content).ok

\* C2: once Sonar.create has run on a configuration file that is absent,
\* unreadable or not parseable as JSON, it has failed with
\* EnginePathNotFoundError and has issued no HTTP request.
C2_ConfigurationNotFound ==
    (phase # "idle" /\ ConfigurationNotFound(appDataFile)) =>
        /\ createResult = Throw(EnginePathNotFoundError)
        /\ createRequests = <<>>

\* Sonar.create has failed on a file whose text is not JSON.
C2_Witness ==
    /\ phase = "failed"
    /\ appDataFile = TextFile("not json")
    /\ createResult = Throw(EnginePathNotFoundError)
    /\ createRequests = <<>>

\* The file parses as JSON and has no address field, or an empty one.
AddressMissing(file) ==
    /\ file.exists
    /\ file.readable
    /\ JSONparse(file.content).ok
    /\ \/ ~JSONparse(file.content).hasAddress
       \/ JSONparse(file.content).ggEncryptedAddress = ""

\* C3: Sonar.create never resolves with an instance when the configuration
\* file parses as JSON but has no ggEncryptedAddress or an empty one.
C3_MissingAddressIsFatal ==
    (phase # "idle" /\ AddressMissing(appDataFile)) => createResult # Resolved

\* C4: when Sonar.create has resolved, discovery was answered 200 with
\* isEnabled, isReady and isRunning all true and the instance's
\* webServerAddress is that response's address, not empty and not "null";
\* create is not resolved before it has finished, and every request of a
\* public method is made on a resolved instance, its URL starting with that
\* address.
C4_ResolvedInstanceIsUsable ==
    /\ createResult = Resolved =>
           /\ phase = "ready"
           /\ DiscoveryAnswered
           /\ subAppsOutcome.data.isEnabled
           /\ subAppsOutcome.data.isReady
           /\ subAppsOutcome.data.isRunning
           /\ webServerAddress = ResolvedAddress
           /\ webServerAddress \notin {"", "null"}
    /\ \A call \in Calls :
           /\ createResult = Resolved
           /\ \A i \in 1..Len(call.requests) :
                  /\ Len(call.requests[i].url) > Len(webServerAddress)
                  /\ SubSeq(call.requests[i].url, 1, Len(webServerAddress))
                         = webServerAddress

\* A control operation of a resolved instance has sent its request.
C4_Witness ==
    /\ createResult = Resolved
    /\ \E call \in pending : call.op = "getVolumeData" /\ Len(call.requests) = 1

\* C5: when discovery is answered 200 with an empty or "null"
\* webServerAddress, Sonar.create fails with WebServerAddressNotFoundError if
\* the three flags are true, and with the error of a flag if one is false.
C5_AddressCheckedAfterFlags ==
    (DiscoveryAnswered /\ ResolvedAddress \in {"", "null"}) =>
        LET sonar == subAppsOutcome.data
        IN  IF sonar.isEnabled /\ sonar.isReady /\ sonar.isRunning
            THEN createResult = Throw(WebServerAddressNotFoundError)
            ELSE \E error \in FlagErrors : createResult = Throw(error)

\* All flags are true, the address is the text "null", and the address error
\* is reported.
C5_Witness ==
    /\ DiscoveryAnswered
    /\ subAppsOutcome.data.isEnabled
    /\ subAppsOutcome.data.isReady
    /\ subAppsOutcome.data.isRunning
    /\ ResolvedAddress = "null"
    /\ createResult = Throw(WebServerAddressNotFoundError)

-----------------------------------------------------------------------------
(* setVolume, muteChannel, setChatMix: validation and the request sent *)

\* <serviceAddress><modePath>[/<slider> only in streamer mode]/<channel>/Volume/<volume>
VolumeUrl(call) ==
    ResolvedAddress \o ModePath(call.modeAtCall)
        \o (IF call.modeAtCall THEN "/" \o call.streamerSlider ELSE "")
        \o "/" \o call.channel \o "/Volume/" \o NumberLiteral(call.volume)

\* C6: a setVolume call with one of the six channels and 0 <= volume <= 1 (and,
\* when the instance is in streamer mode, one of the two sliders) has issued
\* exactly one request, a PUT to the volume URL of its arguments, and when that
\* request is answered 200 the call returns the response body unchanged.
C6_SetVolumeSendsOnePut ==
    \A call \in Calls :
        (/\ call.op = "setVolume"
         /\ call.channel \in CHANNEL_NAMES
         /\ InUnitRange(call.volume)
         /\ ValidSliderIfStreamer(call)) =>
            /\ call.requests = <<Request("PUT", VolumeUrl(call))>>
            /\ Answered200(call) => call.result = ReturnData(call.outcome.data)

\* setVolume at the upper bound 1, in streamer mode, answered 200.
C6_Witness ==
    /\ last.op = "setVolume"
    /\ last.modeAtCall
    /\ last.streamerSlider = "monitoring"
    /\ last.volume = Num(10000)
    /\ Answered200(last)
    /\ last.result = ReturnData("{\"success\":true}")

\* C7: a setVolume call with a valid channel (and a valid slider in streamer
\* mode) sends a request only if 0 <= volume <= 1; for every other volume it
\* fails with InvalidVolumeError carrying that volume and sends no request.
C7_VolumeOutOfRangeRejected ==
    \A call \in Calls :
        (/\ call.op = "setVolume"
         /\ call.channel \in CHANNEL_NAMES
         /\ ValidSliderIfStreamer(call)) =>
            /\ call.requests # <<>> => InUnitRange(call.volume)
            /\ ~InUnitRange(call.volume) =>
                   /\ call.result = Throw(InvalidVolumeError(call.volume))
                   /\ call.requests = <<>>

\* C8: a setVolume or muteChannel call whose channel is not one of the six
\* fails with ChannelNotFoundError carrying that channel and sends no request,
\* whatever the mode and the other arguments.
C8_UnknownChannelRejected ==
    \A call \in Calls :
        (call.op \in {"setVolume", "muteChannel"} /\ call.channel \notin CHANNEL_NAMES) =>
            /\ call.result = Throw(ChannelNotFoundError(call.channel))
            /\ call.requests = <<>>

\* setVolume in streamer mode with an unknown channel and an unknown slider.
C8_Witness ==
    /\ last.op = "setVolume"
    /\ last.modeAtCall
    /\ last.channel = "invalid"
    /\ last.streamerSlider = "bogus"
    /\ last.result = Throw(ChannelNotFoundError("invalid"))

\* The URL of a call in classic mode: no slider segment.
ClassicUrl(call) ==
    ResolvedAddress \o "/volumeSettings/classic/" \o call.channel
        \o (IF call.op = "setVolume"
            THEN "/Volume/" \o NumberLiteral(call.volume)
            ELSE "/Mute/" \o (IF call.muted THEN "true" ELSE "false"))

\* C9: for a setVolume or muteChannel call with a valid channel and a slider
\* that is not one of the two: in streamer mode it fails with
\* SliderNotFoundError carrying the slider and sends no request; in classic
\* mode the slider is ignored: the call (for setVolume, with 0 <= volume <= 1)
\* sends its PUT to the classic URL, which has no slider segment, and returns
\* the body of a 200 response.
C9_SliderValidatedOnlyInStreamerMode ==
    \A call \in Calls :
        (/\ call.op \in {"setVolume", "muteChannel"}
         /\ call.channel \in CHANNEL_NAMES
         /\ call.streamerSlider \notin STREAMER_SLIDER_NAMES) =>
            IF call.modeAtCall
            THEN /\ call.result = Throw(SliderNotFoundError(call.streamerSlider))
                 /\ call.requests = <<>>
            ELSE (call.op = "setVolume" => InUnitRange(call.volume)) =>
                     /\ call.requests = <<Request("PUT", ClassicUrl(call))>>
                     /\ Answered200(call) =>
                            call.result = ReturnData(call.outcome.data)

\* muteChannel in classic mode with an unknown slider has succeeded.
C9_Witness ==
    /\ last.op = "muteChannel"
    /\ ~last.modeAtCall
    /\ last.streamerSlider = "bogus"
    /\ last.result = ReturnData("{\"success\":true}")

\* C10: a setChatMix call with -1 <= balance <= 1 sends exactly one PUT to
\* <serviceAddress>/chatMix?balance=<balance> and returns the body of a 200
\* response; with any other balance it fails with InvalidMixVolumeError
\* carrying the balance and sends no request.
C10_SetChatMixRange ==
    \A call \in Calls :
        call.op = "setChatMix" =>
            IF InMixRange(call.mixVolume)
            THEN /\ call.requests =
                        <<Request("PUT", ResolvedAddress \o "/chatMix?balance="
                                         \o NumberLiteral(call.mixVolume))>>
                 /\ Answered200(call) => call.result = ReturnData(call.outcome.data)
            ELSE /\ call.result = Throw(InvalidMixVolumeError(call.mixVolume))
                 /\ call.requests = <<>>

-----------------------------------------------------------------------------
(* Vocabulary of the properties of the control operations *)

\* The calls the user of the instance has made.
UserCalls == {call \in Calls : call.caller = "user"}

\* The call of isStreamerMode that create made, once it has settled.
ProbeSettled == last.op = "isStreamerMode" /\ last.caller = "create"

Operations ==
    {"setVolume", "muteChannel", "getVolumeData", "getChatMixData", "setChatMix",
     "isStreamerMode", "setStreamerMode"}

ValidationErrors ==
    {"ChannelNotFoundError", "SliderNotFoundError", "InvalidVolumeError",
     "InvalidMixVolumeError"}

\* The call threw from its validation, before the await.
ValidationFailed(call) ==
    /\ call.outcome = Unsettled
    /\ call.result.kind = "throw"
    /\ call.result.error.name \in ValidationErrors

\* The URL of muteChannel, by mode.
MuteUrl(call) ==
    ResolvedAddress
        \o (IF call.modeAtCall
            THEN "/volumeSettings/streamer/" \o call.streamerSlider \o "/"
                     \o call.channel \o "/isMuted/"
            ELSE "/volumeSettings/classic/" \o call.channel \o "/Mute/")
        \o (IF call.muted THEN "true" ELSE "false")

\* url begins with prefix.
StartsWith(url, prefix) ==
    Len(url) >= Len(prefix) /\ SubSeq(url, 1, Len(prefix)) = prefix

-----------------------------------------------------------------------------
\* C11: a muteChannel call with a valid channel (and, in streamer mode, a
\* valid slider) sends exactly one PUT: in classic mode to
\* <serviceAddress>/volumeSettings/classic/<channel>/Mute/<true|false>, in
\* streamer mode to
\* <serviceAddress>/volumeSettings/streamer/<slider>/<channel>/isMuted/<true|false>.
C11_MuteKeywordFollowsMode ==
    \A call \in Calls :
        (/\ call.op = "muteChannel"
         /\ call.channel \in CHANNEL_NAMES
         /\ ValidSliderIfStreamer(call)) =>
            call.requests = <<Request("PUT", MuteUrl(call))>>

\* muteChannel('game', true, 'monitoring') in streamer mode has sent its PUT
\* with the isMuted keyword.
C11_Witness ==
    /\ last.op = "muteChannel"
    /\ last.modeAtCall
    /\ last.requests =
         <<Request("PUT", "http://localhost:8081/volumeSettings/streamer/monitoring/game/isMuted/true")>>
    /\ Answered200(last)

\* C12: in discovery and in each of the seven operations called by the user,
\* a response whose status is not 200 makes the call fail with
\* ServerNotAccessibleError carrying that status, and a transport error that
\* carries a response makes it fail with ServerNotAccessibleError carrying
\* the status of that response.
C12_NotOkIsServerNotAccessible ==
    /\ \A call \in UserCalls :
           call.op \in Operations =>
               /\ (call.outcome.kind = "response" /\ call.outcome.status # 200) =>
                      call.result = Throw(ServerNotAccessibleError(call.outcome.status))
               /\ (call.outcome.kind = "error" /\ call.outcome.error.hasResponse) =>
                      call.result =
                          Throw(ServerNotAccessibleError(call.outcome.error.status))
    /\ (subAppsOutcome.kind = "response" /\ subAppsOutcome.status # 200) =>
           createResult = Throw(ServerNotAccessibleError(subAppsOutcome.status))
    /\ (subAppsOutcome.kind = "error" /\ subAppsOutcome.error.hasResponse) =>
           createResult = Throw(ServerNotAccessibleError(subAppsOutcome.error.status))

\* getVolumeData was answered 204 and failed with ServerNotAccessibleError(204).
C12_Witness ==
    /\ last.op = "getVolumeData"
    /\ last.caller = "user"
    /\ last.outcome.kind = "response"
    /\ last.outcome.status = 204
    /\ last.result = Throw(ServerNotAccessibleError(204))

\* C13: in discovery and in each operation, a transport error that carries
\* no response is rethrown: the call fails with that very error, not with
\* ServerNotAccessibleError.
C13_ErrorWithoutResponseRethrown ==
    /\ \A call \in UserCalls :
           (/\ call.op \in Operations
            /\ call.outcome.kind = "error"
            /\ ~call.outcome.error.hasResponse) =>
               call.result = Throw(call.outcome.error)
    /\ (subAppsOutcome.kind = "error" /\ ~subAppsOutcome.error.hasResponse) =>
           createResult = Throw(subAppsOutcome.error)

\* setVolume met a refused connection and failed with the AxiosError itself.
C13_Witness ==
    /\ last.op = "setVolume"
    /\ last.outcome = Rejected(AxiosErrorNoResponse("ECONNREFUSED"))
    /\ last.result = Throw(AxiosErrorNoResponse("ECONNREFUSED"))

\* C14: when create, given no explicit mode, has its mode probe fail after a
\* successful discovery, create still resolves: the instance has the flag
\* false and the classic volume path.
C14_ProbeFailureSwallowed ==
    (ProbeSettled /\ last.result.kind = "throw") =>
        /\ phase = "ready"
        /\ createResult = Resolved
        /\ streamerMode = FALSE
        /\ volumePath = "/volumeSettings/classic"

\* The probe met a refused connection and create has resolved.
C14_Witness ==
    /\ ProbeSettled
    /\ last.outcome = Rejected(AxiosErrorNoResponse("ECONNREFUSED"))
    /\ createResult = Resolved
    /\ ~streamerMode

\* C15: when create is given an explicit mode m and resolves, it has sent
\* the discovery GET and nothing else (no request to /mode), and the
\* instance it returns has the flag m and the volume path of m.
C15_ExplicitModeSkipsProbe ==
    (options.hasStreamerMode /\ createResult = Resolved) =>
        /\ createRequests = <<Request("GET", baseUrl \o "/subApps")>>
        /\ Calls = {} =>
               /\ streamerMode = options.streamerMode
               /\ volumePath = ModePath(options.streamerMode)

\* create({ streamerMode: true }) has resolved and no method was called yet.
C15_Witness ==
    /\ options = Options(TRUE, TRUE)
    /\ createResult = Resolved
    /\ Calls = {}
    /\ streamerMode
    /\ volumePath = "/volumeSettings/streamer"
    /\ createRequests = <<Request("GET", "https://127.0.0.1:8080/subApps")>>

\* C16: isStreamerMode sends one GET to <serviceAddress>/mode/ and, answered
\* 200, returns true when the body is 'stream' and false for any other
\* body; after a create without an explicit mode whose probe succeeded, the
\* flag of the instance is what the probe returned.
C16_IsStreamerModeReadsBody ==
    /\ \A call \in Calls :
           call.op = "isStreamerMode" =>
               /\ call.requests = <<Request("GET", ResolvedAddress \o "/mode/")>>
               /\ Answered200(call) =>
                      call.result = IF call.outcome.data = "stream"
                                    THEN ReturnBool(TRUE) ELSE ReturnBool(FALSE)
    /\ (ProbeSettled /\ last.result.kind = "return") =>
           /\ ~options.hasStreamerMode
           /\ streamerMode = last.result.bool

\* The probe of create was answered 'stream' and the instance is in
\* streamer mode.
C16_Witness ==
    /\ ProbeSettled
    /\ last.outcome = Response(200, "stream")
    /\ last.result = ReturnBool(TRUE)
    /\ streamerMode

\* C17: setStreamerMode(m) sends one PUT to <serviceAddress>/mode/stream when
\* m is true and to <serviceAddress>/mode/classic when m is false; answered
\* 200, it sets the flag to true exactly when the body is 'stream', whatever
\* m was, and returns the new flag.
C17_FlagFollowsResponseBody ==
    \A call \in Calls :
        call.op = "setStreamerMode" =>
            /\ call.requests =
                   <<Request("PUT", ResolvedAddress
                                    \o (IF call.requested THEN "/mode/stream"
                                                          ELSE "/mode/classic"))>>
            /\ (call = last /\ Answered200(call)) =>
                   /\ streamerMode = (call.outcome.data = "stream")
                   /\ call.result = ReturnBool(streamerMode)

\* setStreamerMode(true) was answered 'classic': the flag is false and the
\* call returned false.
C17_Witness ==
    /\ last.op = "setStreamerMode"
    /\ last.requested
    /\ last.outcome = Response(200, "classic")
    /\ ~streamerMode
    /\ last.result = ReturnBool(FALSE)

\* C18: once a setStreamerMode was answered 200 with body 'stream', every
\* getVolumeData, setVolume and muteChannel call made afterwards sends its
\* request to the service address resolved by create followed by
\* /volumeSettings/streamer, until a later setStreamerMode is answered 200;
\* after the body 'classic', to the address followed by
\* /volumeSettings/classic.  create sends nothing more.
C18_PathFollowsLastAnswer ==
    modeAnswered \in {"stream", "classic"} =>
        /\ \A call \in UserCalls :
               (/\ call.op \in {"getVolumeData", "setVolume", "muteChannel"}
                /\ call.requests # <<>>) =>
                   /\ Len(call.requests) = 1
                   /\ StartsWith(call.requests[1].url,
                                 ResolvedAddress \o ModePath(modeAnswered = "stream"))
        /\ Len(createRequests) <= 2
        /\ webServerAddress = ResolvedAddress

\* An instance created in classic mode was answered 'stream' by
\* setStreamerMode, and the getVolumeData made afterwards went to the
\* streamer path.
C18_Witness ==
    /\ options = Options(TRUE, FALSE)
    /\ modeAnswered = "stream"
    /\ last.op = "getVolumeData"
    /\ last.requests =
         <<Request("GET", "http://localhost:8081/volumeSettings/streamer")>>

\* C19: a call of an operation sends at most one HTTP request: none when its
\* validation fails, exactly one otherwise, and no further one once the
\* request has settled, whether with 200, another status or an error.
C19_AtMostOneRequestPerCall ==
    \A call \in UserCalls :
        call.op \in Operations =>
            IF ValidationFailed(call)
            THEN call.requests = <<>>
            ELSE Len(call.requests) = 1

\* setChatMix was answered 500 and has sent one request.
C19_Witness ==
    /\ last.op = "setChatMix"
    /\ last.outcome.kind = "response"
    /\ last.outcome.status = 500
    /\ Len(last.requests) = 1

\* C20: getVolumeData sends one GET to <serviceAddress> followed by the
\* volume path of the mode; getChatMixData sends one GET to
\* <serviceAddress>/chatMix in either mode; answered 200, each returns the
\* body as it came.
C20_GettersReturnPayload ==
    \A call \in Calls :
        /\ call.op = "getVolumeData" =>
               /\ call.requests =
                      <<Request("GET", ResolvedAddress \o ModePath(call.modeAtCall))>>
               /\ Answered200(call) => call.result = ReturnData(call.outcome.data)
        /\ call.op = "getChatMixData" =>
               /\ call.requests = <<Request("GET", ResolvedAddress \o "/chatMix")>>
               /\ Answered200(call) => call.result = ReturnData(call.outcome.data)

\* getChatMixData in streamer mode has returned the body of its 200 response.
C20_Witness ==
    /\ last.op = "getChatMixData"
    /\ last.modeAtCall
    /\ last.requests = <<Request("GET", "http://localhost:8081/chatMix")>>
    /\ last.result = ReturnData("{\"success\":true}")

-----------------------------------------------------------------------------
(* Vocabulary of the properties of the errors and of the mode state *)

\* The errors the program has thrown to its caller: by create and by the calls.
Thrown ==
    (IF createResult.kind = "throw" THEN {createResult.error} ELSE {})
        \cup {call.result.error : call \in {c \in Calls : c.result.kind = "throw"}}

\* The status the transport showed the call: of the response, or of the
\* response an error carried.
ObservedStatus(outcome) ==
    IF outcome.kind = "response" THEN outcome.status ELSE outcome.error.status

-----------------------------------------------------------------------------
\* C21: every error of the taxonomy that reaches a caller is an instance of
\* SonarError and of Error, of its own class and of no other class of the
\* taxonomy, and has the name of its class; it carries its payload
\* unchanged: ServerNotAccessibleError the status observed,
\* ChannelNotFoundError the channel given, SliderNotFoundError the slider
\* given, InvalidVolumeError the volume given, InvalidMixVolumeError the
\* balance given.
C21_ErrorsDistinguishableByKind ==
    /\ \A error \in Thrown :
           error.class \in SonarErrorClasses =>
               /\ InstanceOf(error, "SonarError")
               /\ InstanceOf(error, "Error")
               /\ error.name = error.class
               /\ \A class \in SonarErrorClasses :
                      InstanceOf(error, class) <=> class = error.class
    /\ \A call \in Calls :
           call.result.kind = "throw" =>
               LET error == call.result.error
               IN  /\ error.class = "ServerNotAccessibleError" =>
                          error.statusCode = ObservedStatus(call.outcome)
                   /\ error.class = "ChannelNotFoundError" => error.channel = call.channel
                   /\ error.class = "SliderNotFoundError" =>
                          error.slider = call.streamerSlider
                   /\ error.class = "InvalidVolumeError" => error.volume = call.volume
                   /\ error.class = "InvalidMixVolumeError" =>
                          error.mixVolume = call.mixVolume
    /\ (createResult.kind = "throw"
            /\ createResult.error.class = "ServerNotAccessibleError") =>
           createResult.error.statusCode = ObservedStatus(subAppsOutcome)

\* setVolume('game', 1.01, 'bogus') in streamer mode failed with a
\* SliderNotFoundError that carries the slider.
C21_Witness ==
    /\ last.op = "setVolume"
    /\ last.result.kind = "throw"
    /\ last.result.error.name = "SliderNotFoundError"
    /\ InstanceOf(last.result.error, "SonarError")
    /\ ~InstanceOf(last.result.error, "ChannelNotFoundError")
    /\ last.result.error.slider = "bogus"
    /\ last.volume = Num(10100)

\* C22: in every state of an instance that create has returned, with or
\* without requests in flight, the stored volume path is
\* /volumeSettings/streamer when the flag is true and
\* /volumeSettings/classic when the flag is false.
C22_PathMatchesFlag ==
    phase = "ready" =>
        /\ streamerMode => volumePath = "/volumeSettings/streamer"
        /\ ~streamerMode => volumePath = "/volumeSettings/classic"

\* An instance created without an explicit mode was probed as 'stream' and
\* has a request in flight.
C22_Witness ==
    /\ phase = "ready"
    /\ ~options.hasStreamerMode
    /\ streamerMode
    /\ volumePath = "/volumeSettings/streamer"
    /\ modeAnswered = "none"
    /\ pending # {}

\* A step in which a setStreamerMode call receives a 200 response.
SetStreamerModeAnswered ==
    /\ \E call \in pending : call.op = "setStreamerMode" /\ call \notin pending'
    /\ last'.op = "setStreamerMode"
    /\ last'.outcome.kind = "response"
    /\ last'.outcome.status = 200

\* C23: once create has returned the instance, a step changes the flag or
\* the volume path only when it is a setStreamerMode call receiving a 200
\* response: the other operations, the validation failures and a failing
\* setStreamerMode leave both as they are; and no step changes the base URL
\* or the service address.
C23_ModeChangesOnlyOnAnsweredSetStreamerMode ==
    [][phase = "ready" =>
          /\ (streamerMode' # streamerMode \/ volumePath' # volumePath) =>
                 SetStreamerModeAnswered
          /\ baseUrl' = baseUrl
          /\ webServerAddress' = webServerAddress]_vars

\* setStreamerMode(true) on a classic instance was answered 500 and the
\* instance is still classic.
C23_Witness ==
    /\ last.op = "setStreamerMode"
    /\ last.requested
    /\ ~last.modeAtCall
    /\ last.outcome = Response(500, "stream")
    /\ ~streamerMode
    /\ volumePath = "/volumeSettings/classic"

\* C26: create reads the configuration file, then sends GET <base>/subApps,
\* then, only when no explicit mode was given, GET <serviceAddress>/mode/,
\* and stops at the first failure: the discovery GET is sent only when the
\* file was read, the probe only when discovery was answered 200 with the
\* three flags true and an address other than empty and 'null', and a
\* failed create has sent nothing after the step that failed.
C26_ConstructionInOrder ==
    /\ Len(createRequests) <= 2
    /\ createRequests # <<>> =>
           /\ ~ConfigurationNotFound(appDataFile)
           /\ createRequests[1] = Request("GET", baseUrl \o "/subApps")
    /\ Len(createRequests) = 2 =>
           /\ ~options.hasStreamerMode
           /\ DiscoveryAnswered
           /\ subAppsOutcome.data.isEnabled
           /\ subAppsOutcome.data.isReady
           /\ subAppsOutcome.data.isRunning
           /\ ResolvedAddress \notin {"", "null"}
           /\ createRequests[2] = Request("GET", ResolvedAddress \o "/mode/")
    /\ createResult.kind = "throw" =>
           /\ phase = "failed"
           /\ Len(createRequests) = IF subAppsOutcome = Unsettled THEN 0 ELSE 1
    /\ createResult = Resolved =>
           Len(createRequests) = IF options.hasStreamerMode THEN 1 ELSE 2

\* create without an explicit mode has sent the discovery GET and then the
\* probe, and has resolved.
C26_Witness ==
    /\ createResult = Resolved
    /\ createRequests = <<Request("GET", "https://127.0.0.1:8080/subApps"),
                          Request("GET", "http://localhost:8081/mode/")>>

\* C27: setVolume reports the first violation in the order channel, slider
\* (streamer mode only), volume: an unknown channel gives
\* ChannelNotFoundError whatever the slider and the volume are; in streamer
\* mode a known channel with an unknown slider gives SliderNotFoundError
\* whatever the volume is; InvalidVolumeError is reported only for a known
\* channel and, in streamer mode, a known slider.  muteChannel tests the
\* channel, then the slider, and nothing else: with both accepted it sends
\* its request.
C27_FirstViolationReported ==
    \A call \in Calls :
        call.op \in {"setVolume", "muteChannel"} =>
            /\ call.channel \notin CHANNEL_NAMES =>
                   call.result = Throw(ChannelNotFoundError(call.channel))
            /\ (/\ call.channel \in CHANNEL_NAMES
                /\ call.modeAtCall
                /\ call.streamerSlider \notin STREAMER_SLIDER_NAMES) =>
                   call.result = Throw(SliderNotFoundError(call.streamerSlider))
            /\ (call.channel \in CHANNEL_NAMES /\ ValidSliderIfStreamer(call)) =>
                   IF call.op = "muteChannel"
                   THEN Len(call.requests) = 1
                   ELSE \/ Len(call.requests) = 1
                        \/ /\ call.result = Throw(InvalidVolumeError(call.volume))
                           /\ call.requests = <<>>

\* setVolume('game', -0.01, 'bogus') in streamer mode reported the slider,
\* not the volume.
C27_Witness ==
    /\ last.op = "setVolume"
    /\ last.modeAtCall
    /\ last.channel = "game"
    /\ last.streamerSlider = "bogus"
    /\ last.volume = Num(-100)
    /\ last.result = Throw(SliderNotFoundError("bogus"))

\* The kinds of error the documentation of Sonar.create lists.
CreateErrorClasses ==
    {"EnginePathNotFoundError", "ServerNotAccessibleError", "SonarNotEnabledError",
     "ServerNotReadyError", "ServerNotRunningError", "WebServerAddressNotFoundError"}

\* C30: a create that fails, fails with an error of one of the six kinds of
\* the taxonomy, or with the error without a response that the transport
\* raised for the discovery GET.
C30_CreateFailsWithTypedError ==
    createResult.kind = "throw" =>
        \/ createResult.error.class \in CreateErrorClasses
        \/ /\ subAppsOutcome.kind = "error"
           /\ ~subAppsOutcome.error.hasResponse
           /\ createResult.error = subAppsOutcome.error

\* ---------------------------------------------------------------------------
\* Overlapping calls.
\* ---------------------------------------------------------------------------

\* The URL a setVolume or muteChannel call addresses.
UrlOf(call) == IF call.op = "setVolume" THEN VolumeUrl(call) ELSE MuteUrl(call)

VolumeCalls == {call \in UserCalls : call.op \in {"setVolume", "muteChannel"}}

\* C24: a setVolume or muteChannel call that overlaps a setStreamerMode call
\* sends one request whose URL is built entirely from one mode, the one the
\* flag held when the call was made: the classic base path without a slider
\* segment (and the Mute keyword), or the streamer base path with a slider
\* segment naming a known slider (and the isMuted keyword); never the base
\* path of one mode with the slider handling or keyword of the other.
C24_UrlBuiltFromOneMode ==
    \A call \in VolumeCalls :
        call.requests # <<>> =>
            /\ Len(call.requests) = 1
            /\ call.modeAtCall => call.streamerSlider \in STREAMER_SLIDER_NAMES
            /\ call.requests[1].url = UrlOf(call)
            /\ StartsWith(call.requests[1].url,
                          ResolvedAddress \o ModePath(call.modeAtCall) \o "/")

\* A setVolume call is in flight with the classic URL it was given when it
\* was made, while the setStreamerMode call it overlapped has since switched
\* the flag to streamer.
C24_Witness ==
    /\ streamerMode
    /\ last.op = "setStreamerMode"
    /\ last.result = ReturnBool(TRUE)
    /\ \E call \in pending :
           /\ call.op = "setVolume"
           /\ ~call.modeAtCall
           /\ call.requests[1].url
                  = ResolvedAddress \o "/volumeSettings/classic/game/Volume/0.5"

\* The step in which a call in flight settles.
Settles(call) ==
    \/ \E outcome \in OverlapOutcomes :
           \/ SetVolumeSettles(call, outcome)
           \/ MuteChannelSettles(call, outcome)
           \/ GetVolumeDataSettles(call, outcome)
    \/ \E outcome \in ModeOutcomes(call) : SetStreamerModeSettles(call, outcome)

\* What a volume operation's caller observes for a transport outcome.
OwnResult(outcome) ==
    IF outcome.kind = "response" /\ outcome.status = 200
    THEN ReturnData(outcome.data)
    ELSE Throw(ServerNotAccessibleError(ObservedStatus(outcome)))

\* C25: calls made while another call is in flight are neither queued nor
\* serialized: every call in flight has sent its own request, any of the calls
\* in flight can be the next to settle, and a settled volume call reports the
\* result of its own response whatever the other calls in flight do.
C25_OverlappingCallsIndependent ==
    /\ \A call \in pending : Len(call.requests) = 1
    /\ \A call \in pending :
           call.op \in {"setVolume", "muteChannel", "getVolumeData"}
               => ENABLED Settles(call)
    /\ (last.op \in {"setVolume", "muteChannel", "getVolumeData"}
            /\ last.outcome # Unsettled)
           => last.result = OwnResult(last.outcome)

\* The second of two overlapping calls has failed with status 500 while the
\* first, a setVolume call too, is still in flight with its request sent.
C25_Witness ==
    /\ last.op = "setVolume"
    /\ last.id = 2
    /\ last.result = Throw(ServerNotAccessibleError(500))
    /\ \E call \in pending :
           /\ call.op = "setVolume"
           /\ call.id = 1
           /\ Len(call.requests) = 1

\* Mode calls begun and not yet settled after the first n events.
OpenModeCalls(n) ==
    Cardinality({i \in 1..n : history[i].event = "call"})
        - Cardinality({i \in 1..n : history[i].event = "settle"})

\* The construction probe got the service's answer.
ProbeReturned == history # <<>> /\ history[1] = Probed("return")

\* No setStreamerMode call was made while another one was in flight.
NoModeOverlap == \A n \in 1..Len(history) : OpenModeCalls(n) <= 1

\* No setStreamerMode call is in flight.
ModeQuiet == OpenModeCalls(Len(history)) = 0

\* The instance was constructed by a successful probe, its setStreamerMode
\* calls did not overlap and all of them have completed.
SequentialModeCalls == phase = "ready" /\ ProbeReturned /\ NoModeOverlap /\ ModeQuiet

\* The latest mode event, the probe or a setStreamerMode call, was a success.
LatestModeCallReturned == history[Len(history)].kind = "return"

FlagAgreesWithServer ==
    /\ streamerMode = (serverMode = "stream")
    /\ volumePath = ModePath(serverMode = "stream")

\* The volume and mute requests sent in this step.
VolumeCallsBegun == {call \in pending' \ pending : call.op \in {"setVolume", "muteChannel"}}

ToServerModePath(call) ==
    StartsWith(call.requests[1].url,
               ResolvedAddress \o ModePath(serverMode = "stream") \o "/")

OverlappedModeCallsReturned ==
    /\ phase = "ready"
    /\ ~NoModeOverlap
    /\ ModeQuiet
    /\ \A i \in 1..Len(history) :
           history[i].event = "settle" => history[i].kind = "return"

====
